---- MODULE Spec2Model ----
(***************************************************************************)
(* TDOSE: per-layer flux apportionment (tdose_model_cube.gen_fullmodel)    *)
(* and spectral extraction (tdose_extract_spectra.extract_spectra /        *)
(* extract_spectrum).                                                      *)
(*                                                                         *)
(* Images are ravelled: a layer image is a function from 1..NPix.  Layers  *)
(* are numbered 0..NLayers-1 and sources 0..Nsource-1 as in the code.      *)
(* Floating point numbers are modelled exactly: a value is a rational, the *)
(* signed square root of a rational, or one of NaN, +Inf, -Inf with the    *)
(* IEEE rules for the non-finite cases.                                    *)
(***************************************************************************)
EXTENDS Integers, Sequences, FiniteSets, TLC

(***************************************************************************)
(* Bounds of the model.                                                    *)
(***************************************************************************)
NLayers == 2
NPix == 2

Layers == 0..(NLayers - 1)
Pixels == 1..NPix

(***************************************************************************)
(* Numbers.  [k, n, d, r]: k = "fin" is sgn(n) * (|n|/d)^(1/r), r in 1..2. *)
(***************************************************************************)
Abs(i) == IF i < 0 THEN -i ELSE i

RECURSIVE GCD(_, _)
GCD(a, b) == IF b = 0 THEN a ELSE GCD(b, a % b)

NaN == [k |-> "nan", n |-> 0, d |-> 1, r |-> 1]
PInf == [k |-> "pinf", n |-> 0, d |-> 1, r |-> 1]
NInf == [k |-> "ninf", n |-> 0, d |-> 1, r |-> 1]

Q(n, d) ==
    LET g == GCD(Abs(n), d)
    IN  IF n = 0 THEN [k |-> "fin", n |-> 0, d |-> 1, r |-> 1]
        ELSE [k |-> "fin", n |-> n \div g, d |-> d \div g, r |-> 1]

Z(i) == Q(i, 1)
Zero == Z(0)
One == Z(1)

IsFinite(v) == v.k = "fin"
IsNaN(v) == v.k = "nan"
IsInf(v) == v.k \in {"pinf", "ninf"}
IsZero(v) == v.k = "fin" /\ v.n = 0

Sgn(v) ==
    CASE v.k = "pinf" -> 1
      [] v.k = "ninf" -> -1
      [] v.k = "nan" -> 0
      [] OTHER -> IF v.n > 0 THEN 1 ELSE IF v.n < 0 THEN -1 ELSE 0

SignedInf(s) == IF s > 0 THEN PInf ELSE NInf

IsPerfSq(m) == \E i \in 0..m : i * i = m
ISqrt(m) == CHOOSE i \in 0..m : i * i = m

\* the square of a finite value, as a pair <<numerator, denominator>>
SqOf(v) == IF v.r = 1 THEN <<v.n * v.n, v.d * v.d>> ELSE <<Abs(v.n), v.d>>

\* the finite value of sign s whose square is n/d
FromSq(s, n, d) ==
    LET g == GCD(n, d)
        nn == n \div g
        dd == d \div g
    IN  IF n = 0 \/ s = 0 THEN Zero
        ELSE IF IsPerfSq(nn) /\ IsPerfSq(dd)
             THEN [k |-> "fin", n |-> s * ISqrt(nn), d |-> ISqrt(dd), r |-> 1]
             ELSE [k |-> "fin", n |-> s * nn, d |-> dd, r |-> 2]

\* a + b (finite operands are rationals)
Add(a, b) ==
    CASE IsNaN(a) \/ IsNaN(b) -> NaN
      [] IsInf(a) /\ IsInf(b) -> IF a.k = b.k THEN a ELSE NaN
      [] IsInf(a) -> a
      [] IsInf(b) -> b
      [] OTHER -> Q(a.n * b.d + b.n * a.d, a.d * b.d)

Neg(a) ==
    CASE IsNaN(a) -> NaN
      [] a.k = "pinf" -> NInf
      [] a.k = "ninf" -> PInf
      [] OTHER -> [a EXCEPT !.n = -a.n]

Sub(a, b) == Add(a, Neg(b))

Mul(a, b) ==
    CASE IsNaN(a) \/ IsNaN(b) -> NaN
      [] IsInf(a) \/ IsInf(b) ->
            IF IsZero(a) \/ IsZero(b) THEN NaN ELSE SignedInf(Sgn(a) * Sgn(b))
      [] OTHER ->
            LET sa == SqOf(a)
                sb == SqOf(b)
            IN  FromSq(Sgn(a) * Sgn(b), sa[1] * sb[1], sa[2] * sb[2])

Div(a, b) ==
    CASE IsNaN(a) \/ IsNaN(b) -> NaN
      [] IsInf(a) /\ IsInf(b) -> NaN
      [] IsInf(a) -> SignedInf(Sgn(a) * (IF Sgn(b) < 0 THEN -1 ELSE 1))
      [] IsInf(b) -> Zero
      [] IsZero(b) -> IF IsZero(a) THEN NaN ELSE SignedInf(Sgn(a))
      [] OTHER ->
            LET sa == SqOf(a)
                sb == SqOf(b)
            IN  FromSq(Sgn(a) * Sgn(b), sa[1] * sb[2], sa[2] * sb[1])

\* np.sqrt of a non-negative rational (negative or NaN input gives NaN)
Sqrt(a) ==
    CASE IsNaN(a) -> NaN
      [] a.k = "pinf" -> PInf
      [] a.k = "ninf" -> NaN
      [] a.n < 0 -> NaN
      [] OTHER -> FromSq(1, a.n, a.d)

\* a < b for finite rationals
Less(a, b) == a.n * b.d < b.n * a.d

RECURSIVE SumSeq(_)
SumSeq(s) == IF s = <<>> THEN Zero ELSE Add(Head(s), SumSeq(Tail(s)))

\* sum of f[i] over the finite integer set S, in increasing order of i
RECURSIVE SumOver(_, _)
SumOver(f, S) ==
    IF S = {} THEN Zero
    ELSE LET m == CHOOSE i \in S : \A j \in S : i <= j
         IN  Add(f[m], SumOver(f, S \ {m}))


(***************************************************************************)
(* State.  The arguments of gen_fullmodel keep their names; they are fixed *)
(* by Init and never change (inputs are read-only for a run).              *)
(***************************************************************************)
VARIABLES
    paramtype,          \* 'gauss' | 'modelimg' | 'aperture' | anything else
    psfparamtype,       \* 'gauss' | 'kernel_gauss' | anything else
    optimize_method,    \* 'matrix' | 'nnls' | 'lstsq' | 'curvefit' | 'all' | anything else
    fit_source_scales,  \* BOOLEAN
    save_modelcube,     \* BOOLEAN
    Nsource,            \* number of sources described by sourceparam
    sourceparam,        \* [0..Nsource-1 -> image]: unit-scale template of each source
    psfparam,           \* number of layers the PSF list / cube describes
    datacube,           \* [Layers -> image]
    noisecube,          \* [given, nl, npix, img]: the noise cube, or None when ~given
    model_layers,       \* [given, list]: the layers to model, or None when ~given
    pc,                 \* "start" | "loop" | "finished" | "returned" | "aborted"
    error,              \* the exception that ended the run ("" while there is none)
    lidx,               \* position in layerlist of the next layer of the loop
    layer_scales,       \* [0..Nsource-1 -> [Layers -> number]]
    model_cube_out,     \* [Layers -> image]
    done_layers,        \* the layers whose iteration completed, in order
    saved               \* what save_cube was handed: <<>> or <<[cube, scales]>>

inputs == <<paramtype, psfparamtype, optimize_method, fit_source_scales, save_modelcube,
            Nsource, sourceparam, psfparam, datacube, noisecube, model_layers>>
gfm_state == <<pc, error, lidx, layer_scales, model_cube_out, done_layers, saved>>

\* the state of extract_spectra / extract_spectrum
VARIABLES
    ex_pc,        \* "idle" | "objects" | "returned" | "aborted"
    ex_call,      \* the arguments of the call
    ex_error,     \* the exception that ended the extraction ("" while none)
    oo,           \* position in the dictionary of the next object
    specfiles,    \* the spectra written so far, in order
    ex_mode       \* the branch the last extract_spectrum call took

ex_state == <<ex_pc, ex_call, ex_error, oo, specfiles, ex_mode>>

\* remove_object (tdose_modify_cube.py)
VARIABLES
    rm_pc,              \* "idle", "returned" or "aborted"
    rm_call,            \* [objects, remove]: the arguments of the call
    modified_cube       \* [layer -> image]: the cube remove_object returns

rm_state == <<rm_pc, rm_call, modified_cube>>
vars == <<inputs, gfm_state, ex_state, rm_state>>


Sources == 0..(Nsource - 1)

(***************************************************************************)
(* The inputs the model draws from.                                        *)
(***************************************************************************)
ParamTypes == {"gauss", "modelimg", "aperture", "bogus"}
PsfParamTypes == {"gauss", "kernel_gauss", "bogus"}
Solvers == {"matrix", "nnls", "lstsq"}
OptimizeMethods == Solvers \cup {"curvefit", "all", "bogus"}

DataKinds == {"clean", "nan1", "nanall"}
NoiseKinds == {"ones", "nan1", "nanall", "zero1"}
TemplateKinds == {"single", "distinct", "duplicate"}
ApertureKinds == {"mask1", "masks"}
LayerKinds == { <<"clean", "ones">>, <<"nan1", "ones">>, <<"nanall", "ones">>,
                <<"clean", "nanall">>, <<"clean", "zero1">>, <<"clean", "nan1">> }

\* the cubes of the numeric runs: the first and the last layer take every
\* kind, the layers between them are clean
CubeKinds ==
    {k \in [Layers -> LayerKinds] :
        \A l \in Layers : (l # 0 /\ l # NLayers - 1) => k[l] = <<"clean", "ones">>}

\* layer 0 is the first template at scale 1, the other layers differ from it
DataVal(l, p) == IF l = 0 THEN (IF p = 1 THEN 2 ELSE 1) ELSE (l + 1) * p + 1

DataImage(kind, l) ==
    [p \in Pixels |->
        CASE kind = "nanall" -> NaN
          [] kind = "nan1" /\ p = 1 -> NaN
          [] OTHER -> Z(DataVal(l, p))]

NoiseImage(kind) ==
    [p \in Pixels |->
        CASE kind = "nanall" -> NaN
          [] kind = "nan1" /\ p = 1 -> NaN
          [] kind = "zero1" /\ p = 1 -> Zero
          [] OTHER -> One]

\* the unit-scale templates of the sources: two overlapping profiles, the same
\* profile twice, or one profile; for apertures one or two disjoint binary masks
Templates(kind) ==
    LET t0 == [p \in Pixels |-> IF p = 1 THEN Z(2) ELSE One]
        t1 == [p \in Pixels |-> IF p = NPix THEN Z(2) ELSE One]
        m0 == [p \in Pixels |-> IF p = 1 THEN One ELSE Zero]
        m1 == [p \in Pixels |-> IF p = NPix THEN One ELSE Zero]
    IN  CASE kind = "single" -> [s \in 0..0 |-> t0]
          [] kind = "duplicate" -> [s \in 0..1 |-> t0]
          [] kind = "mask1" -> [s \in 0..0 |-> m0]
          [] kind = "masks" -> [s \in 0..1 |-> IF s = 0 THEN m0 ELSE m1]
          [] OTHER -> [s \in 0..1 |-> IF s = 0 THEN t0 ELSE t1]

NoNoise == [given |-> FALSE, nl |-> 0, npix |-> 0, img |-> <<>>]
NoiseCube(kinds) ==
    [given |-> TRUE, nl |-> NLayers, npix |-> NPix,
     img |-> [l \in Layers |-> NoiseImage(kinds[l][2])]]
\* a noise cube of ones with nl layers of npix pixels
NoiseOfShape(nl, npix) ==
    [given |-> TRUE, nl |-> nl, npix |-> npix,
     img |-> [l \in 0..(nl - 1) |-> NoiseImage("ones")]]
DataCube(kinds) == [l \in Layers |-> DataImage(kinds[l][1], l)]
CleanKinds == [l \in Layers |-> <<"clean", "ones">>]

AllLayers == [given |-> FALSE, list |-> <<>>]
OnlyLayers(list) == [given |-> TRUE, list |-> list]

ZeroImage == [p \in Pixels |-> Zero]


(***************************************************************************)
(* gen_fullmodel: one iteration of the layer loop (lines 119-342).         *)
(***************************************************************************)
\* line 103-106
layerlist ==
    IF model_layers.given THEN model_layers.list
    ELSE [i \in 1..NLayers |-> i - 1]

\* line 108-111
optimize_method_list ==
    IF optimize_method = "all" THEN {"curvefit", "matrix", "lstsq", "nnls"}
    ELSE {optimize_method}

\* line 114-117
analytic_conv == paramtype = "gauss"
\* mutant: a missing noise cube is replaced by weights that grow with the pixel
noise_of_uneven(ll) ==
    IF noisecube.given THEN noisecube.img[ll] ELSE [p \in Pixels |-> Z(p)]

\* line 97-100: layer ll of the noise cube, a cube of ones when none was given
noise_of(ll) ==
    IF noisecube.given THEN noisecube.img[ll] ELSE [p \in Pixels |-> One]

\* line 150-151: some pixel of the data or of the noise layer is not finite
has_nonfinite(ll) ==
    \E p \in Pixels : ~IsFinite(datacube[ll][p]) \/ ~IsFinite(noise_of(ll)[p])

\* line 153-155
comb_mask(ll) ==
    [p \in Pixels |-> ~IsFinite(datacube[ll][p]) \/ ~IsFinite(noise_of(ll)[p])]

\* line 160: the masked layers are filled for the optimizers that reject masks
fills_masked == optimize_method_list \cap {"curvefit", "nnls", "lstsq"} # {}

\* the layer is carried as numpy masked arrays (line 157-158, not filled)
is_masked(ll) == has_nonfinite(ll) /\ ~fills_masked

\* mutant: the masked data layer is handed to the optimizer without filling
datacube_layer_nofill(ll) == datacube[ll]

\* line 157-170
datacube_layer(ll) ==
    [p \in Pixels |->
        IF has_nonfinite(ll) /\ fills_masked /\ comb_mask(ll)[p] THEN Zero
        ELSE datacube[ll][p]]

noisecube_layer(ll) ==
    [p \in Pixels |->
        IF has_nonfinite(ll) /\ fills_masked /\ comb_mask(ll)[p] THEN One
        ELSE noise_of(ll)[p]]

\* a / b on layer ll as the dot products see it: plain division on ndarrays; on
\* masked arrays numpy masks the masked pixels, the pixels with a zero divisor
\* and the non-finite quotients, and ma.dot reads masked entries as 0
quotient(a, b, ll) ==
    [p \in Pixels |->
        IF is_masked(ll)
        THEN IF comb_mask(ll)[p] \/ IsZero(b[p]) \/ ~IsFinite(Div(a[p], b[p]))
             THEN Zero
             ELSE Div(a[p], b[p])
        ELSE Div(a[p], b[p])]

\* tdose_utilities.numerical_convolution_image with the kernel of the layer: the
\* image convolved with the normalised PSF kernel, here a kernel of one pixel
numerical_convolution_image(inputmodel) == inputmodel

\* line 219-224: the convolved image of source ss normalised to a sum of one
conv_source_images(ss) ==
    LET img_model_init == numerical_convolution_image(sourceparam[ss])
    IN  [p \in Pixels |-> Div(img_model_init[p], SumOver(img_model_init, Pixels))]

\* line 199-224: the unit-scale template of source ss, the evaluated Gaussian
\* that sourceparam stands for or the normalised image
img_model(ss) == IF analytic_conv THEN sourceparam[ss] ELSE conv_source_images(ss)

\* line 197-232: row ss of Atrans, the noise-weighted template of source ss
Atrans(ll) == [ss \in Sources |-> quotient(img_model(ss), noisecube_layer(ll), ll)]

\* line 238
dataravel(ll) == quotient(datacube_layer(ll), noisecube_layer(ll), ll)

Dot(u, v) == SumOver([p \in Pixels |-> Mul(u[p], v[p])], Pixels)

\* line 243-244
ATA(ll) == [i \in Sources |-> [j \in Sources |-> Dot(Atrans(ll)[i], Atrans(ll)[j])]]
ATd(ll) == [i \in Sources |-> Dot(Atrans(ll)[i], dataravel(ll))]

AllFinite2(M) == \A i \in DOMAIN M : \A j \in DOMAIN M[i] : IsFinite(M[i][j])
AllFinite1(v) == \A i \in DOMAIN v : IsFinite(v[i])

Det(M) ==
    IF Nsource = 1 THEN M[0][0]
    ELSE Sub(Mul(M[0][0], M[1][1]), Mul(M[0][1], M[1][0]))

\* the solution of M x = b for an invertible M of one or two sources
Cramer(M, b) ==
    IF Nsource = 1 THEN [s \in Sources |-> Div(b[0], M[0][0])]
    ELSE [s \in Sources |->
            IF s = 0
            THEN Div(Sub(Mul(M[1][1], b[0]), Mul(M[0][1], b[1])), Det(M))
            ELSE Div(Sub(Mul(M[0][0], b[1]), Mul(M[1][0], b[0])), Det(M))]

ZeroScales == [s \in Sources |-> Zero]
NaNScales == [s \in Sources |-> NaN]

Trace2(M) == SumOver([i \in Sources |-> M[i][i]], Sources)

\* mutant: the singular case falls back to the pseudo-inverse of AtA
scalesMTX_pinv(ll) ==
    IF ~AllFinite2(ATA(ll)) THEN NaNScales
    ELSE IF IsZero(Det(ATA(ll)))
         THEN IF IsZero(Trace2(ATA(ll))) THEN ZeroScales
              ELSE [s \in Sources |-> Div(ATd(ll)[s], Trace2(ATA(ll)))]
    ELSE Cramer(ATA(ll), ATd(ll))

\* mutant: the LinAlgError of the singular case is not caught by zeros
scalesMTX_nocatch(ll) ==
    IF ~AllFinite2(ATA(ll)) THEN NaNScales
    ELSE Cramer(ATA(ll), ATd(ll))

\* line 246-250: np.linalg.inv raises on an exactly singular matrix and the
\* inverse is then replaced by zeros; a matrix with non-finite entries is
\* factorised without an error and the product is NaN
scalesMTX(ll) ==
    IF ~AllFinite2(ATA(ll)) THEN NaNScales
    ELSE IF IsZero(Det(ATA(ll))) THEN ZeroScales
    ELSE Cramer(ATA(ll), ATd(ll))

\* np.asarray_chkfinite of the design matrix and the target vector
chkfinite(ll) == AllFinite2(Atrans(ll)) /\ AllFinite1(dataravel(ll))

\* line 290-291: scipy.linalg.lstsq, the least-squares solution of minimum norm
scalesLSQ(ll) ==
    IF ~IsZero(Det(ATA(ll))) THEN Cramer(ATA(ll), ATd(ll))
    ELSE IF IsZero(Trace2(ATA(ll))) THEN ZeroScales
    ELSE [s \in Sources |-> Div(ATd(ll)[s], Trace2(ATA(ll)))]

\* the non-negative least-squares solution with only source j active
OneActive(M, b, j) ==
    [s \in Sources |->
        IF s = j /\ ~IsZero(M[j][j]) /\ Less(Zero, b[j]) THEN Div(b[j], M[j][j])
        ELSE Zero]

\* twice the decrease of the squared residual that OneActive(M, b, j) achieves
Gain(M, b, j) ==
    IF ~IsZero(M[j][j]) /\ Less(Zero, b[j]) THEN Div(Mul(b[j], b[j]), M[j][j])
    ELSE Zero
\* mutant: the active set never grows beyond the first source
scalesNNLS_first_only(ll) == OneActive(ATA(ll), ATd(ll), 0)

\* line 271: scipy.optimize.nnls (Lawson-Hanson active set method)
scalesNNLS(ll) ==
    LET M == ATA(ll)
        b == ATd(ll)
        x == Cramer(M, b)
    IN  IF Nsource = 1 THEN OneActive(M, b, 0)
        ELSE IF IsZero(Det(M))
             THEN IF Less(b[0], b[1]) THEN OneActive(M, b, 1) ELSE OneActive(M, b, 0)
        ELSE IF ~Less(x[0], Zero) /\ ~Less(x[1], Zero) THEN x
        ELSE IF Less(Gain(M, b, 0), Gain(M, b, 1)) THEN OneActive(M, b, 1)
        ELSE OneActive(M, b, 0)

\* gen_image / line 255-264: the sum over the sources of scale times template
scaled_model(scales) ==
    [p \in Pixels |->
        SumOver([s \in Sources |-> Mul(scales[s], img_model(s)[p])], Sources)]

\* line 279-282: the sum over the sources of scale times the input image
scaled_sourceparam(scales) ==
    [p \in Pixels |->
        SumOver([s \in Sources |-> Mul(scales[s], sourceparam[s][p])], Sources)]
\* the standard deviation image that optimizer m of layer ll is handed: ones
\* for curve_fit (line 173-177), the noise layer for the others (line 227, 238)
img_std(m, ll) ==
    IF m = "curvefit" THEN [p \in Pixels |-> One] ELSE noisecube_layer(ll)

\* the exception that ends the iteration of layer ll, "" when it completes
layer_error(ll) ==
    CASE psfparamtype # "gauss" -> "SystemExit"                    \* line 128-131
      [] ll >= psfparam -> "IndexError"                            \* line 126 / 203
      [] ~fit_source_scales ->                                     \* line 333-339
            IF ~analytic_conv THEN "NameError"
            ELSE IF noisecube.given /\ ll >= noisecube.nl THEN "IndexError"
            ELSE IF \E p \in Pixels : ~IsFinite(datacube[ll][p]) THEN "ValueError"
            ELSE "TypeError"
      [] noisecube.given /\ ll >= noisecube.nl -> "IndexError"     \* line 151
      [] noisecube.given /\ noisecube.npix # NPix -> "ValueError"  \* line 155 / 227
      [] "curvefit" \in optimize_method_list /\ analytic_conv -> "debugger"  \* line 175, 542-549, 618-622
      [] optimize_method_list \cap Solvers = {} -> "UnboundLocalError"       \* line 341
      [] optimize_method_list \cap {"nnls", "lstsq"} # {} /\ ~chkfinite(ll) -> "ValueError"
      [] optimize_method = "all" -> "NameError"                    \* line 303
      [] ~analytic_conv /\ optimize_method = "lstsq" /\ Nsource > 1 -> "ValueError"  \* line 297
      [] OTHER -> ""
\* mutant: the solve of a layer starts from what the other layers left behind
output_scales_carried(ll) ==
    LET fresh == CASE optimize_method = "matrix" -> scalesMTX(ll)
                   [] optimize_method = "nnls" -> scalesNNLS(ll)
                   [] OTHER -> scalesLSQ(ll)
    IN  [s \in Sources |->
            Add(fresh[s],
                SumOver([l \in Layers |-> layer_scales[s][l]], Layers \ {ll}))]

\* line 266 / 285 / 300
output_scales(ll) ==
    CASE optimize_method = "matrix" -> scalesMTX(ll)
      [] optimize_method = "nnls" -> scalesNNLS(ll)
      [] OTHER -> scalesLSQ(ll)

\* line 255-265 / 274-284 / 293-299.  Without the analytic convolution the
\* 'lstsq' branch multiplies img_model, the noise-weighted image of the last
\* source, by the vector of scales: one source gives that image times its
\* scale, more sources do not broadcast against an image wider than Nsource;
\* the 'nnls' branch of several sources sums the input images of sourceparam
\* where the 'matrix' branch sums conv_source_images
output_layer(ll) ==
    IF ~analytic_conv /\ optimize_method = "lstsq"
    THEN [p \in Pixels |-> Mul(Atrans(ll)[Nsource - 1][p], output_scales(ll)[0])]
    ELSE IF ~analytic_conv /\ optimize_method = "nnls" /\ Nsource > 1
    THEN scaled_sourceparam(output_scales(ll))
    ELSE scaled_model(output_scales(ll))

\* tdose_model_FoV.modelimage_aperture: the static binary mask of the apertures
modelimage_aperture ==
    [p \in Pixels |-> IF \E s \in Sources : ~IsZero(sourceparam[s][p]) THEN One ELSE Zero]

(***************************************************************************)
(* gen_fullmodel as a state machine.                                       *)
(***************************************************************************)
\* mutant: the 'aperture' parameter type goes through the layer loop as well
Begin_aperture_in_loop ==
    /\ pc = "start"
    /\ IF paramtype \in {"gauss", "modelimg", "aperture"}
       THEN /\ layer_scales' = [s \in Sources |-> [l \in Layers |-> Zero]]
            /\ model_cube_out' = [l \in Layers |-> ZeroImage]
            /\ pc' = "loop"
            /\ error' = ""
       ELSE /\ pc' = "aborted"
            /\ error' = "SystemExit"
            /\ UNCHANGED <<layer_scales, model_cube_out>>
    /\ lidx' = 1
    /\ UNCHANGED <<done_layers, saved>>
    /\ UNCHANGED <<inputs, ex_state, rm_state>>

\* line 71-117 and 344-354: dispatch on paramtype and allocation of the outputs
Begin ==
    /\ pc = "start"
    /\ IF paramtype \in {"gauss", "modelimg"}
       THEN /\ layer_scales' = [s \in Sources |-> [l \in Layers |-> Zero]]
            /\ model_cube_out' = [l \in Layers |-> ZeroImage]
            /\ pc' = "loop"
            /\ error' = ""
       ELSE IF paramtype = "aperture"
       THEN /\ layer_scales' = [s \in Sources |-> [l \in Layers |-> One]]
            /\ model_cube_out' = [l \in Layers |-> modelimage_aperture]
            /\ pc' = "finished"
            /\ error' = ""
       ELSE /\ pc' = "aborted"
            /\ error' = "SystemExit"
            /\ UNCHANGED <<layer_scales, model_cube_out>>
    /\ lidx' = 1
    /\ UNCHANGED <<done_layers, saved>>
    /\ UNCHANGED <<inputs, ex_state, rm_state>>
\* mutant: the iteration allocates the weight matrix and the model cube anew
Layer_reallocating ==
    /\ pc = "loop"
    /\ lidx <= Len(layerlist)
    /\ LET ll == layerlist[lidx]
       IN  IF layer_error(ll) # ""
           THEN /\ pc' = "aborted"
                /\ error' = layer_error(ll)
                /\ UNCHANGED <<lidx, layer_scales, model_cube_out, done_layers>>
           ELSE /\ layer_scales' =
                      [s \in Sources |-> [l \in Layers |->
                          IF l = ll THEN output_scales(ll)[s] ELSE Zero]]
                /\ model_cube_out' =
                      [l \in Layers |-> IF l = ll THEN output_layer(ll) ELSE ZeroImage]
                /\ done_layers' = Append(done_layers, ll)
                /\ lidx' = lidx + 1
                /\ UNCHANGED <<pc, error>>
    /\ UNCHANGED saved
    /\ UNCHANGED <<inputs, ex_state, rm_state>>

\* line 119-342: the iteration of the loop for layer layerlist[lidx]
Layer ==
    /\ pc = "loop"
    /\ lidx <= Len(layerlist)
    /\ LET ll == layerlist[lidx]
       IN  IF layer_error(ll) # ""
           THEN /\ pc' = "aborted"
                /\ error' = layer_error(ll)
                /\ UNCHANGED <<lidx, layer_scales, model_cube_out, done_layers>>
           ELSE /\ layer_scales' =
                      [s \in Sources |-> [layer_scales[s] EXCEPT ![ll] = output_scales(ll)[s]]]
                /\ model_cube_out' = [model_cube_out EXCEPT ![ll] = output_layer(ll)]
                /\ done_layers' = Append(done_layers, ll)
                /\ lidx' = lidx + 1
                /\ UNCHANGED <<pc, error>>
    /\ UNCHANGED saved
    /\ UNCHANGED <<inputs, ex_state, rm_state>>
\* mutant: the cube is saved and returned after any layer of the loop
Finish_early ==
    /\ pc = "loop"
    /\ saved' = IF save_modelcube
                THEN <<[cube |-> model_cube_out, scales |-> layer_scales]>>
                ELSE <<>>
    /\ pc' = "returned"
    /\ UNCHANGED <<error, lidx, layer_scales, model_cube_out, done_layers>>
    /\ UNCHANGED <<inputs, ex_state, rm_state>>

\* line 343 / 352 and 357-364: the loop is over; save and return
Finish ==
    /\ \/ pc = "loop" /\ lidx > Len(layerlist)
       \/ pc = "finished"
    /\ saved' = IF save_modelcube
                THEN <<[cube |-> model_cube_out, scales |-> layer_scales]>>
                ELSE <<>>
    /\ pc' = "returned"
    /\ UNCHANGED <<error, lidx, layer_scales, model_cube_out, done_layers>>
    /\ UNCHANGED <<inputs, ex_state, rm_state>>


(***************************************************************************)
(* gen_source_model_cube (line 671-761): the dense source model cube,      *)
(* [source][layer] -> image, each unit-scale template times its scale.     *)
(***************************************************************************)
gen_source_model_cube ==
    [s \in Sources |-> [l \in Layers |->
        [p \in Pixels |-> Mul(img_model(s)[p], layer_scales[s][l])]]]

(***************************************************************************)
(* extract_spectra / extract_spectrum.  The call is described by ex_call:  *)
(*   entry     "extract_spectra" or a direct call of "extract_spectrum"    *)
(*   given     a source association dictionary is provided                 *)
(*   dict      the source association: a sequence of source id lists       *)
(*   noise     a noise (variance) cube is provided                         *)
(*   var       which one: "model", the noise cube gen_fullmodel was given, *)
(*             or "zero1", a cube of its own with a zero-variance pixel    *)
(*   smc       a source model cube is provided                             *)
(*   data      a data cube is provided                                     *)
(*   hdr       obj_cube_hdr is provided                                    *)
(*   nwave     the length of the wavelength vector                         *)
(***************************************************************************)
NoCall == [entry |-> "", given |-> FALSE, dict |-> <<>>, noise |-> FALSE, var |-> "model", smc |-> FALSE,
           data |-> FALSE, hdr |-> FALSE, nwave |-> 0]

\* line 47-49 / noise_cube: the noise cube the extraction works with
ex_noise ==
    IF ex_call.var = "model" THEN noisecube.img
    ELSE [l \in Layers |-> NoiseImage("zero1")]
\* mutant: the default association puts every source into one object
default_dictionary_one_object == << [i \in 1..Nsource |-> i - 1] >>

\* line 63-70: the default association is one object per source
default_dictionary == [i \in 1..Nsource |-> <<i - 1>>]

RECURSIVE MaxOf(_)
MaxOf(ids) ==
    IF Len(ids) = 1 THEN ids[1]
    ELSE LET m == MaxOf(Tail(ids)) IN IF ids[1] > m THEN ids[1] ELSE m

\* numpy indexing: a negative index counts from the end
row_of(id) == IF id < 0 THEN id + Nsource ELSE id

\* mutant: .any() instead of .all()
all_scales_one_any == \E s \in Sources : \E l \in Layers : layer_scales[s][l] = One

\* line 154
all_scales_one == \A s \in Sources : \A l \in Layers : layer_scales[s][l] = One

\* sum of f[ids[i]] over the positions of the list ids
RECURSIVE SumIds(_, _)
SumIds(f, ids) ==
    IF ids = <<>> THEN Zero ELSE Add(f[row_of(Head(ids))], SumIds(f, Tail(ids)))

AbsVal(v) == IF IsFinite(v) /\ v.n < 0 THEN Neg(v) ELSE IF v.k = "ninf" THEN PInf ELSE v

\* line 156: sum of |source models| of the object
aperture_object_cube(ids) ==
    [l \in Layers |-> [p \in Pixels |->
        SumIds([s \in Sources |-> AbsVal(gen_source_model_cube[s][l][p])], ids)]]

\* line 160-162
aperture_comb_mask(ids, l) ==
    [p \in Pixels |-> IsZero(aperture_object_cube(ids)[l][p]) \/ ~IsFinite(datacube[l][p])]

\* line 163-164
aperture_spec_1D(ids) ==
    [l \in Layers |->
        SumOver([p \in Pixels |-> datacube[l][p]],
                {p \in Pixels : ~aperture_comb_mask(ids, l)[p]})]

\* line 168-169
aperture_noise_mask(ids, l) ==
    [p \in Pixels |-> aperture_comb_mask(ids, l)[p] \/ ~IsFinite(ex_noise[l][p])]

\* line 170-172
aperture_noise_1D(ids) ==
    [l \in Layers |->
        LET valid == {p \in Pixels : ~aperture_noise_mask(ids, l)[p]}
        IN  IF valid = {} THEN NaN
            ELSE Sqrt(SumOver([p \in Pixels |->
                         Mul(ex_noise[l][p], ex_noise[l][p])], valid))]
\* mutant: every distinct source id of the list is counted once
deblend_spec_1D_unique(ids) ==
    [l \in Layers |->
        SumOver([s \in Sources |-> layer_scales[s][l]],
                {row_of(ids[i]) : i \in 1..Len(ids)})]

\* line 182-185
deblend_spec_1D(ids) ==
    [l \in Layers |-> SumIds([s \in Sources |-> layer_scales[s][l]], ids)]

\* line 191
deblend_object_cube(ids) ==
    [l \in Layers |-> [p \in Pixels |->
        SumIds([s \in Sources |-> gen_source_model_cube[s][l][p]], ids)]]

\* line 193-199
fluxfrac_cube(ids) ==
    [l \in Layers |-> [p \in Pixels |->
        Div(SumIds([s \in Sources |->
                       Div(gen_source_model_cube[s][l][p], layer_scales[s][l])], ids),
            Z(Len(ids)))]]

\* line 204-208
deblend_comb_mask(ids, l) ==
    [p \in Pixels |-> ~IsFinite(fluxfrac_cube(ids)[l][p]) \/ ~IsFinite(ex_noise[l][p])]
\* mutant: a plain division, which keeps the pixels with a zero divisor
squared_ratio_valid_withzero(ids, l) ==
    {p \in Pixels : ~deblend_comb_mask(ids, l)[p]}

\* line 211: the masked division also masks the pixels with a zero divisor
squared_ratio_valid(ids, l) ==
    {p \in Pixels : ~deblend_comb_mask(ids, l)[p] /\ ~IsZero(ex_noise[l][p])}

squared_ratio(ids, l) ==
    [p \in Pixels |->
        Div(Mul(fluxfrac_cube(ids)[l][p], fluxfrac_cube(ids)[l][p]),
            Mul(ex_noise[l][p], ex_noise[l][p]))]

\* line 213-214: 1/sqrt(sum), and 0 where the sum is masked or zero
deblend_noise_1D(ids) ==
    [l \in Layers |->
        LET valid == squared_ratio_valid(ids, l)
            total == SumOver(squared_ratio(ids, l), valid)
        IN  IF valid = {} \/ IsZero(total) THEN Zero
            ELSE Div(One, Sqrt(total))]

NaNVector == [l \in Layers |-> NaN]
\* mutant: the flux is summed from the data under the templates in both modes
spec_1D_from_data(ids) == aperture_spec_1D(ids)

\* line 154-220: the spectrum extract_spectrum assembles for the source list ids
spec_1D(ids) == IF all_scales_one THEN aperture_spec_1D(ids) ELSE deblend_spec_1D(ids)

noise_1D(ids) ==
    IF ~ex_call.noise THEN NaNVector
    ELSE IF all_scales_one THEN aperture_noise_1D(ids)
    ELSE deblend_noise_1D(ids)

SN_1D(ids) ==
    IF ~ex_call.noise THEN NaNVector
    ELSE [l \in Layers |-> Div(spec_1D(ids)[l], noise_1D(ids)[l])]

\* object_cube is assigned at line 156 and line 191 only
object_cube_defined == all_scales_one \/ ex_call.noise


\* the exception raised by the checks of line 135-149, "" when they pass
validation_error(ids) ==
    CASE ex_call.nwave # NLayers -> "AttributeError"           \* line 136-139
      [] Len(ids) = 0 -> "ValueError"                          \* line 144
      [] MaxOf(ids) >= Nsource -> "SystemExit"                 \* line 145-147
      [] OTHER -> ""

\* the exception raised inside the branch taken at line 154, "" when none
branch_error(ids) ==
    CASE \E i \in 1..Len(ids) : row_of(ids[i]) < 0 -> "IndexError"        \* line 156 / 185
      [] all_scales_one /\ ~ex_call.smc -> "TypeError"                    \* line 156
      [] all_scales_one /\ ~ex_call.data -> "SystemExit"                  \* line 157-158
      [] ~all_scales_one /\ ex_call.noise /\ ~ex_call.smc -> "TypeError"  \* line 191
      [] ex_call.hdr /\ ~object_cube_defined -> "UnboundLocalError"       \* line 241
      [] OTHER -> ""

\* the table extract_spectrum writes at line 226-258
spectrum_of(ids) ==
    [srcids |-> ids, flux |-> spec_1D(ids), fluxerror |-> noise_1D(ids), s2n |-> SN_1D(ids)]

\* the source associations the model draws from
Dicts ==
    { << <<0>> >>,
      << <<Nsource - 1>>, <<0, Nsource - 1>> >>,
      << <<0>>, <<Nsource>> >>,
      << <<-1>> >>,
      << <<0, 0>>, <<Nsource - 1, 0>> >> }

\* the noise cubes an extraction can be handed: none, the one of the model
\* run when it has the shape of the data cube, or one with a zero pixel
noise_available ==
    {<<FALSE, "model">>, <<TRUE, "zero1">>} \cup
    (IF noisecube.given /\ noisecube.nl = NLayers /\ noisecube.npix = NPix
     THEN {<<TRUE, "model">>} ELSE {})

\* extract_spectra (line 43-76): load the arrays, build the dictionary
ExtractSpectra ==
    /\ pc = "returned"
    /\ saved # <<>>
    /\ ex_pc = "idle"
    /\ \E given \in BOOLEAN, dict \in Dicts, noise \in noise_available, data \in BOOLEAN :
          ex_call' = [entry |-> "extract_spectra", given |-> given,
                      dict |-> IF given THEN dict ELSE default_dictionary,
                      noise |-> noise[1], var |-> noise[2], smc |-> noise[1],
                      data |-> data, hdr |-> TRUE,
                      nwave |-> NLayers]
    /\ ex_pc' = "objects"
    /\ oo' = 1
    /\ UNCHANGED <<ex_error, specfiles, ex_mode>>
    /\ UNCHANGED <<inputs, gfm_state, rm_state>>

\* a direct call of extract_spectrum with the arrays gen_fullmodel returned
CallExtractSpectrum ==
    /\ pc = "returned"
    /\ ex_pc = "idle"
    /\ \E noise \in noise_available, hdr \in BOOLEAN, nwave \in {NLayers, NLayers + 1} :
          ex_call' = [entry |-> "extract_spectrum", given |-> TRUE, dict |-> << <<0>> >>,
                      noise |-> noise[1], var |-> noise[2], smc |-> TRUE,
                      data |-> TRUE, hdr |-> hdr,
                      nwave |-> nwave]
    /\ ex_pc' = "objects"
    /\ oo' = 1
    /\ UNCHANGED <<ex_error, specfiles, ex_mode>>
    /\ UNCHANGED <<inputs, gfm_state, rm_state>>

\* extract_spectrum (line 135-260) for object number oo of the dictionary
ExtractSpectrum ==
    /\ ex_pc = "objects"
    /\ oo <= Len(ex_call.dict)
    /\ LET ids == ex_call.dict[oo]
           mode == IF all_scales_one THEN "aperture" ELSE "deblended"
       IN  IF validation_error(ids) # ""
           THEN /\ ex_pc' = "aborted"
                /\ ex_error' = validation_error(ids)
                /\ UNCHANGED <<oo, specfiles, ex_mode>>
           ELSE IF branch_error(ids) # ""
           THEN /\ ex_pc' = "aborted"
                /\ ex_error' = branch_error(ids)
                /\ ex_mode' = mode
                /\ UNCHANGED <<oo, specfiles>>
           ELSE /\ specfiles' = Append(specfiles, spectrum_of(ids))      \* line 258
                /\ ex_mode' = mode
                /\ IF object_cube_defined                                \* line 260
                   THEN /\ oo' = oo + 1
                        /\ UNCHANGED <<ex_pc, ex_error>>
                   ELSE /\ ex_pc' = "aborted"
                        /\ ex_error' = "UnboundLocalError"
                        /\ UNCHANGED oo
    /\ UNCHANGED ex_call
    /\ UNCHANGED <<inputs, gfm_state, rm_state>>

\* line 101-102: every object of the dictionary has been extracted
ExtractReturn ==
    /\ ex_pc = "objects"
    /\ oo > Len(ex_call.dict)
    /\ ex_pc' = "returned"
    /\ UNCHANGED <<ex_call, ex_error, oo, specfiles, ex_mode>>
    /\ UNCHANGED <<inputs, gfm_state, rm_state>>


(***************************************************************************)
(* remove_object (tdose_modify_cube.py line 82-173): subtract the models   *)
(* of some sources of the source model cube from the data cube.            *)
(***************************************************************************)
\* line 123-124
Nmodels == Nsource
models == [i \in 1..Nmodels |-> i - 1]

SeqRange(seq) == {seq[i] : i \in 1..Len(seq)}

RECURSIVE MaxAbs(_)
\* line 129: np.max(np.abs(objects))
MaxAbs(objects) ==
    IF Len(objects) = 1 THEN Abs(objects[1])
    ELSE LET m == MaxAbs(Tail(objects))
         IN  IF Abs(objects[1]) > m THEN Abs(objects[1]) ELSE m

\* np.setdiff1d(models, objects): the sorted models that are not in objects
setdiff1d(objects) == SelectSeq(models, LAMBDA m : m \notin SeqRange(objects))

\* line 135-140
obj_remove(objects, remove) == IF remove THEN objects ELSE setdiff1d(objects)
obj_keep(objects, remove) == IF remove THEN setdiff1d(objects) ELSE objects

\* line 142: np.sum(sourcemodel[obj_remove,:,:,:], axis=0), one term for every
\* entry of obj_remove
remove_cube(objects, remove) ==
    [l \in Layers |-> [p \in Pixels |->
        SumSeq([i \in 1..Len(obj_remove(objects, remove)) |->
                   gen_source_model_cube[row_of(obj_remove(objects, remove)[i])][l][p]])]]

\* the object lists the model draws from
ObjectLists ==
    { <<0>>, <<Nsource - 1>>, <<0, Nsource - 1>>, <<0, 0>>, <<Nsource>>, <<-1>> }

\* remove_object on the data cube and the source model cube of a returned run
RemoveObject ==
    /\ pc = "returned"
    /\ paramtype \in {"gauss", "modelimg"}
    /\ rm_pc = "idle"
    /\ \E objects \in ObjectLists, remove \in BOOLEAN :
          /\ rm_call' = [objects |-> objects, remove |-> remove]
          /\ IF MaxAbs(objects) >= Nmodels                        \* line 129-131
             THEN /\ rm_pc' = "aborted"
                  /\ UNCHANGED modified_cube
             ELSE /\ rm_pc' = "returned"
                  /\ modified_cube' =                             \* line 144
                        [l \in Layers |-> [p \in Pixels |->
                            Sub(datacube[l][p], remove_cube(objects, remove)[l][p])]]
    /\ UNCHANGED <<inputs, gfm_state, ex_state>>

(***************************************************************************)
(* Initial states: the calls of gen_fullmodel the model explores.          *)
(***************************************************************************)
InitCall(pt, psft, om, fit, save, tk, data, noise, ml, psflen) ==
    /\ paramtype = pt
    /\ psfparamtype = psft
    /\ optimize_method = om
    /\ fit_source_scales = fit
    /\ save_modelcube = save
    /\ Nsource = IF tk \in {"single", "mask1"} THEN 1 ELSE 2
    /\ sourceparam = Templates(tk)
    /\ psfparam = psflen
    /\ datacube = data
    /\ noisecube = noise
    /\ model_layers = ml
    /\ pc = "start"
    /\ error = ""
    /\ lidx = 1
    /\ layer_scales = <<>>
    /\ model_cube_out = <<>>
    /\ done_layers = <<>>
    /\ saved = <<>>
    /\ ex_pc = "idle"
    /\ ex_call = NoCall
    /\ ex_error = ""
    /\ oo = 1
    /\ specfiles = <<>>
    /\ ex_mode = ""
    /\ rm_pc = "idle"
    /\ rm_call = [objects |-> <<>>, remove |-> TRUE]
    /\ modified_cube = <<>>

\* model_layers naming every layer, the last one first
ReversedLayers == [i \in 1..NLayers |-> NLayers - i]

\* valid calls on cubes with clean, partly masked, fully masked and zero-noise
\* layers, modelled in increasing and in decreasing order of the layers
InitNumeric ==
    \E om \in Solvers, tk \in TemplateKinds, kinds \in CubeKinds,
       given \in BOOLEAN, ml \in {AllLayers, OnlyLayers(ReversedLayers)} :
        InitCall("gauss", "gauss", om, TRUE, TRUE, tk, DataCube(kinds),
                 IF given THEN NoiseCube(kinds) ELSE NoNoise, ml, NLayers)

\* every combination of the mode identifiers, on a clean cube
InitModes ==
    \E pt \in ParamTypes, psft \in PsfParamTypes, om \in OptimizeMethods,
       fit \in BOOLEAN, save \in BOOLEAN,
       ml \in {AllLayers, OnlyLayers(<<>>), OnlyLayers(<<NLayers - 1>>)},
       tk \in {"single", "distinct"} :
        InitCall(pt, psft, om, fit, save,
                 IF pt = "aperture" THEN (IF tk = "single" THEN "mask1" ELSE "masks") ELSE tk,
                 DataCube(CleanKinds), NoNoise, ml, NLayers)

\* noise cubes and PSF lists whose shape differs from the data cube's
InitShapes ==
    \E pt \in {"gauss", "modelimg"}, om \in Solvers,
       shape \in {<<NLayers - 1, NPix, NLayers>>, <<NLayers + 1, NPix, NLayers>>,
                  <<NLayers, NPix + 1, NLayers>>, <<NLayers, NPix, NLayers - 1>>} :
        InitCall(pt, "gauss", om, TRUE, TRUE, "distinct", DataCube(CleanKinds),
                 NoiseOfShape(shape[1], shape[2]), AllLayers, shape[3])

\* aperture models on the same cubes
InitAperture ==
    \E tk \in ApertureKinds, kinds \in [Layers -> LayerKinds], given \in BOOLEAN,
       om \in {"matrix", "bogus"} :
        InitCall("aperture", "gauss", om, TRUE, TRUE, tk, DataCube(kinds),
                 IF given THEN NoiseCube(kinds) ELSE NoNoise, AllLayers, NLayers)
\* the fluxes of the synthetic layers
Fluxes == {0, 1, 3}

\* a cube whose layer l is (f1 + l) * t1 + f2 * t2 for the two disjoint masks
SyntheticCube(f1, f2) ==
    [l \in Layers |-> [p \in Pixels |->
        Add(Mul(Z(f1 + l), Templates("masks")[0][p]), Mul(Z(f2), Templates("masks")[1][p]))]]

\* a noise cube that is finite everywhere: 2 at the first pixel, 1 elsewhere
UnevenNoise ==
    [given |-> TRUE, nl |-> NLayers, npix |-> NPix,
     img |-> [l \in Layers |-> [p \in Pixels |-> IF p = 1 THEN Z(2) ELSE One]]]

\* two non-overlapping unit templates with known fluxes
InitSynthetic ==
    \E om \in Solvers \cup {"curvefit"}, f1 \in Fluxes, f2 \in Fluxes,
       noise \in {NoNoise, UnevenNoise} :
        InitCall("gauss", "gauss", om, TRUE, TRUE, "masks", SyntheticCube(f1, f2),
                 noise, AllLayers, NLayers)

Init == InitNumeric \/ InitModes \/ InitShapes \/ InitAperture \/ InitSynthetic

Next ==
    \/ Begin
    \/ Layer
    \/ Finish
    \/ ExtractSpectra
    \/ CallExtractSpectrum
    \/ ExtractSpectrum
    \/ ExtractReturn

Spec == Init /\ [][Next]_vars

\* remove_object applied to the cubes of the synthetic runs
NextRemove ==
    \/ Begin
    \/ Layer
    \/ Finish
    \/ RemoveObject

SpecRemove == InitSynthetic /\ [][NextRemove]_vars


(***************************************************************************)
(* Properties.                                                             *)
(***************************************************************************)
Columns(scales, l) == [s \in Sources |-> scales[s][l]]

DoneSet == {done_layers[i] : i \in 1..Len(done_layers)}

\* every pixel of the data image, or every pixel of the noise image, is non-finite
AllNonFinite(l) ==
    \/ \A p \in Pixels : ~IsFinite(datacube[l][p])
    \/ \A p \in Pixels : ~IsFinite(noise_of(l)[p])

\* no pixel of layer l is valid
NoValidPixel(l) ==
    \A p \in Pixels : ~IsFinite(datacube[l][p]) \/ ~IsFinite(noise_of(l)[p])

\* the normal equations of layer l are non-invertible
Singular(l) == AllFinite2(ATA(l)) /\ IsZero(Det(ATA(l)))

\* the shapes of the noise cube and of the PSF list agree with the data cube
ShapesAgree ==
    /\ noisecube.given => noisecube.nl = NLayers /\ noisecube.npix = NPix
    /\ psfparam = NLayers

\* a call that runs one of the three linear solvers per source
SolverCall ==
    /\ paramtype \in {"gauss", "modelimg"}
    /\ psfparamtype = "gauss"
    /\ fit_source_scales
    /\ optimize_method \in Solvers
    /\ ShapesAgree

\* the loop is about to run the iteration of layer layerlist[lidx]
AtLayer == pc = "loop" /\ lidx <= Len(layerlist)

\* C1: after gen_fullmodel returns, the weight matrix holds no NaN, and every
\* layer whose solve failed (no valid pixel, or non-invertible normal
\* equations) holds 0 for every source.
C1_WeightMatrixHasNoNaN ==
    pc = "returned" =>
        \A s \in Sources : \A l \in Layers :
            /\ ~IsNaN(layer_scales[s][l])
            /\ (l \in DoneSet /\ (NoValidPixel(l) \/ (optimize_method = "matrix" /\ Singular(l))))
                  => IsZero(layer_scales[s][l])

PinvScales(l) ==
    IF IsZero(Trace2(ATA(l))) THEN ZeroScales
    ELSE [s \in Sources |->
            Div(SumOver([j \in Sources |-> Mul(ATA(l)[s][j], ATd(l)[j])], Sources),
                Mul(Trace2(ATA(l)), Trace2(ATA(l))))]


\* C3 (as stated): with the 'matrix' method a layer with a singular AtA gets
\* the scales of the pseudo-inverse of AtA, and the run is not aborted.
C3_SingularLayerUsesPseudoInverse ==
    (SolverCall /\ optimize_method = "matrix") =>
        /\ pc # "aborted"
        /\ \A l \in DoneSet : Singular(l) => Columns(layer_scales, l) = PinvScales(l)

\* C3 (amended): with the 'matrix' method a layer with a singular AtA gets
\* scale 0 for every source (the inverse is replaced by a zero matrix), the
\* run is not aborted and a run that returned has processed every layer of
\* the layer list.
C3_SingularLayerZeroedRunCompletes ==
    (SolverCall /\ optimize_method = "matrix") =>
        /\ pc # "aborted"
        /\ \A l \in DoneSet : Singular(l) => Columns(layer_scales, l) = ZeroScales
        /\ pc = "returned" => done_layers = layerlist

\* C3 witness: a returned 'matrix' run with a singular layer whose
\* pseudo-inverse solution is not zero and whose column is zero.
C3_Witness ==
    /\ pc = "returned"
    /\ SolverCall
    /\ optimize_method = "matrix"
    /\ \E l \in DoneSet :
          /\ Singular(l)
          /\ PinvScales(l) # ZeroScales
          /\ Columns(layer_scales, l) = ZeroScales

\* C4: with the 'matrix' method the iteration of a layer whose normal
\* equations are non-invertible sets the scale of every source in that layer
\* to 0, leaves the columns of the other layers as they were and continues
\* with the next layer.
C4_SingularSystemRecoveredLocally ==
    [][(AtLayer /\ SolverCall /\ optimize_method = "matrix" /\ Singular(layerlist[lidx])) =>
          /\ pc' = "loop"
          /\ lidx' = lidx + 1
          /\ \A s \in Sources : \A l \in Layers :
                layer_scales'[s][l] =
                    IF l = layerlist[lidx] THEN Zero ELSE layer_scales[s][l]]_vars

\* C4 witness: a singular layer with valid pixels was zeroed after an earlier
\* layer was given a non-zero scale, which is still there.
C4_Witness ==
    /\ SolverCall
    /\ optimize_method = "matrix"
    /\ \E i \in 1..Len(done_layers) : \E j \in 1..Len(done_layers) :
          /\ i < j
          /\ Singular(done_layers[j])
          /\ ~NoValidPixel(done_layers[j])
          /\ Columns(layer_scales, done_layers[j]) = ZeroScales
          /\ \E s \in Sources : ~IsZero(layer_scales[s][done_layers[i]])

\* an identifier gen_fullmodel does not support, or a solver that does not
\* apply to the parameter type
UnsupportedMode ==
    \/ optimize_method = "bogus"
    \/ paramtype = "bogus"
    \/ psfparamtype = "bogus"
    \/ optimize_method = "curvefit" /\ paramtype = "modelimg"

\* C5: a call with an unsupported mode never solves a layer, never saves and
\* never returns arrays.
C5_UnsupportedModeAbortsUpFront ==
    UnsupportedMode =>
        /\ pc \notin {"finished", "returned"}
        /\ done_layers = <<>>
        /\ saved = <<>>

\* C6: when the shapes of the cubes disagree gen_fullmodel aborts before the
\* first layer is processed, and extract_spectrum aborts before it assembles a
\* flux when the wavelength vector does not match the weight matrix.
C6_ShapeMismatchAbortsBeforeLayerWork ==
    /\ ~ShapesAgree =>
          /\ done_layers = <<>>
          /\ pc \notin {"finished", "returned"}
    /\ (ex_call.entry # "" /\ ex_call.nwave # NLayers) =>
          /\ specfiles = <<>>
          /\ ex_pc # "returned"

\* some object of the dictionary names a source id beyond the weight matrix
InvalidSourceReference ==
    \E i \in 1..Len(ex_call.dict) : \E j \in 1..Len(ex_call.dict[i]) :
        ex_call.dict[i][j] >= Nsource

\* C7: when some object of the dictionary references a source id beyond the
\* rows of the weight matrix, extract_spectra writes no spectrum at all.
C7_InvalidSourceAbortsBeforeAnyObject ==
    (ex_call.entry = "extract_spectra" /\ InvalidSourceReference) =>
        /\ specfiles = <<>>
        /\ ex_pc # "returned"

\* the source ids are rows of the weight matrix, the wavelength vector fits
\* and a data cube is at hand
WellFormedExtraction ==
    /\ ex_call.entry # ""
    /\ ex_call.nwave = NLayers
    /\ ex_call.data
    /\ \A i \in 1..Len(ex_call.dict) :
          /\ Len(ex_call.dict[i]) > 0
          /\ \A j \in 1..Len(ex_call.dict[i]) : ex_call.dict[i][j] \in Sources

\* C8: without a noise cube the extraction is not an error in either mode: it
\* does not abort, and every spectrum it writes has NaN in fluxerror and s2n
\* at every layer.
C8_NoNoiseIsNotAnError ==
    (WellFormedExtraction /\ ~ex_call.noise) =>
        /\ ex_pc # "aborted"
        /\ \A i \in 1..Len(specfiles) : \A l \in Layers :
              IsNaN(specfiles[i].fluxerror[l]) /\ IsNaN(specfiles[i].s2n[l])

\* C9: in every written spectrum s2n is flux/noise at every layer and is NaN
\* wherever the noise is zero or unavailable.
C9_SNUndefinedWhereNoiseZero ==
    \A i \in 1..Len(specfiles) : \A l \in Layers :
        /\ specfiles[i].s2n[l] = Div(specfiles[i].flux[l], specfiles[i].fluxerror[l])
        /\ (IsZero(specfiles[i].fluxerror[l]) \/ IsNaN(specfiles[i].fluxerror[l]))
              => IsNaN(specfiles[i].s2n[l])

\* every entry of the weight matrix is exactly 1
EveryWeightIsOne ==
    \A s \in Sources : \A l \in Layers :
        /\ IsFinite(layer_scales[s][l])
        /\ layer_scales[s][l].r = 1
        /\ layer_scales[s][l].n = layer_scales[s][l].d

\* C10: extract_spectrum takes the aperture branch if and only if every entry
\* of the weight matrix equals 1 and the deblended branch otherwise; a call
\* that gets past its input checks takes exactly one of the two.
C10_ApertureModeIffAllWeightsOne ==
    /\ ex_mode \in {"", "aperture", "deblended"}
    /\ ex_mode = "aperture" => EveryWeightIsOne
    /\ ex_mode = "deblended" => ~EveryWeightIsOne
    /\ specfiles # <<>> => ex_mode # ""

\* C10 witness: a spectrum was written in deblended mode from a weight matrix
\* that holds a 1 next to other values.
C10_Witness ==
    /\ ex_mode = "deblended"
    /\ specfiles # <<>>
    /\ \E s \in Sources : \E l \in Layers : layer_scales[s][l] = One

\* every source id of the spectrum's object is a row of the weight matrix
ValidIds(ids) == \A j \in 1..Len(ids) : ids[j] \in Sources

\* the sum over the listings of ids of row ids[j] of the weight matrix at layer l
ListedWeights(ids, l) ==
    SumOver([j \in 1..Len(ids) |-> layer_scales[ids[j]][l]], 1..Len(ids))

\* C11: in deblended mode the flux of every written spectrum is, at every
\* layer, the sum of the weight matrix entries of the source ids listed for
\* the object, one term per listing and no other row.
C11_DeblendedFluxIsSumOfListedWeights ==
    (specfiles # <<>> /\ ~all_scales_one) =>
        \A i \in 1..Len(specfiles) : \A l \in Layers :
            ValidIds(specfiles[i].srcids) =>
                specfiles[i].flux[l] = ListedWeights(specfiles[i].srcids, l)

\* C11 witness: deblended spectra were written for an object of two different
\* sources with non-zero weights and for an object that lists a source twice.
C11_Witness ==
    /\ specfiles # <<>>
    /\ ~all_scales_one
    /\ \E i \in 1..Len(specfiles) : \E l \in Layers :
          LET ids == specfiles[i].srcids
          IN  /\ Len(ids) = 2
              /\ ValidIds(ids)
              /\ ids[1] # ids[2]
              /\ ~IsZero(layer_scales[ids[1]][l])
              /\ IsFinite(layer_scales[ids[1]][l])
              /\ IsFinite(layer_scales[ids[2]][l])
              /\ specfiles[i].flux[l] # layer_scales[ids[1]][l]
    /\ \E i \in 1..Len(specfiles) : specfiles[i].srcids = <<0, 0>>

\* C12 (as stated): the flux of an object that consists of the single source
\* s is row s of the weight matrix, for every weight matrix.
C12_SingleSourceFluxIsItsRow ==
    \A i \in 1..Len(specfiles) : \A l \in Layers :
        (Len(specfiles[i].srcids) = 1 /\ ValidIds(specfiles[i].srcids)) =>
            specfiles[i].flux[l] = layer_scales[specfiles[i].srcids[1]][l]

\* C12 (amended): when some entry of the weight matrix differs from 1
\* (deblended mode), the flux of an object that consists of the single source
\* s is row s of the weight matrix.
C12_SingleSourceFluxIsItsRowWhenDeblended ==
    (specfiles # <<>> /\ ~all_scales_one) =>
        \A i \in 1..Len(specfiles) : \A l \in Layers :
            (Len(specfiles[i].srcids) = 1 /\ ValidIds(specfiles[i].srcids)) =>
                specfiles[i].flux[l] = layer_scales[specfiles[i].srcids[1]][l]

\* C12 witness: a deblended spectrum of a single source of a two-source model
\* whose row is finite, non-zero and differs from the other source's row.
C12_Witness ==
    /\ specfiles # <<>>
    /\ ~all_scales_one
    /\ Nsource = 2
    /\ \E i \in 1..Len(specfiles) : \E l \in Layers :
          LET ids == specfiles[i].srcids
          IN  /\ Len(ids) = 1
              /\ ValidIds(ids)
              /\ IsFinite(layer_scales[ids[1]][l])
              /\ ~IsZero(layer_scales[ids[1]][l])
              /\ layer_scales[0][l] # layer_scales[1][l]

\* every source template is a binary (0/1) mask
BinaryTemplates ==
    \A s \in Sources : \A p \in Pixels : sourceparam[s][p] \in {Zero, One}

\* C13: on a weight matrix of ones and binary mask templates, the spectrum
\* written (by the aperture formulas) has the flux and the noise that the
\* deblended formulas give for the same object: the sum of the weights and
\* 1/sqrt(sum f^2/noise^2).
C13_DeblendedAndApertureFormulasAgree ==
    (specfiles # <<>> /\ all_scales_one /\ BinaryTemplates /\ ex_call.noise) =>
        \A i \in 1..Len(specfiles) :
            ValidIds(specfiles[i].srcids) =>
                /\ specfiles[i].flux = deblend_spec_1D(specfiles[i].srcids)
                /\ specfiles[i].fluxerror = deblend_noise_1D(specfiles[i].srcids)

\* the pixels of the object's binary mask: the summed templates are not zero
ObjectMask(ids) ==
    {p \in Pixels : ~IsZero(SumOver([j \in 1..Len(ids) |-> sourceparam[ids[j]][p]],
                                    1..Len(ids)))}

\* the flux and the noise of layer l summed over the pixel set S
FluxOver(S, l) == SumOver(datacube[l], S)
NoiseOver(S, l) ==
    IF S = {} THEN NaN
    ELSE Sqrt(SumOver([p \in Pixels |-> Mul(ex_noise[l][p], ex_noise[l][p])], S))

\* C14: in aperture mode with a noise cube, at every layer of every written
\* spectrum there is one set of pixels of the object's mask, holding at least
\* every pixel of the mask whose data and noise are finite, over which the
\* flux is the sum of the data and the noise is the square root of the sum of
\* the squared noise.
C14_ApertureFluxAndNoiseShareTheirPixels ==
    (specfiles # <<>> /\ all_scales_one /\ ex_call.noise) =>
        \A i \in 1..Len(specfiles) : \A l \in Layers :
            ValidIds(specfiles[i].srcids) =>
                \E S \in SUBSET ObjectMask(specfiles[i].srcids) :
                    /\ \A p \in ObjectMask(specfiles[i].srcids) :
                          (IsFinite(datacube[l][p]) /\ IsFinite(ex_noise[l][p])) => p \in S
                    /\ specfiles[i].flux[l] = FluxOver(S, l)
                    /\ specfiles[i].fluxerror[l] = NoiseOver(S, l)

\* the flux-fraction image of layer l: the source models of the listed
\* sources, each divided by its weight, summed and divided by their number
FluxFraction(ids, l) ==
    [p \in Pixels |->
        Div(SumOver([j \in 1..Len(ids) |->
                        Div(gen_source_model_cube[ids[j]][l][p], layer_scales[ids[j]][l])],
                    1..Len(ids)),
            Z(Len(ids)))]

\* the pixels of layer l whose flux fraction and noise are both finite
FinitePixels(ids, l) ==
    {p \in Pixels : IsFinite(FluxFraction(ids, l)[p]) /\ IsFinite(ex_noise[l][p])}

\* 1/sqrt(sum over S of f^2/noise^2)
OptimalNoise(ids, l, S) ==
    Div(One, Sqrt(SumOver([p \in Pixels |->
                              Div(Mul(FluxFraction(ids, l)[p], FluxFraction(ids, l)[p]),
                                  Mul(ex_noise[l][p], ex_noise[l][p]))], S)))

\* C15 (as stated): in deblended mode with a noise cube, the noise of a layer
\* is 1/sqrt(sum f^2/noise^2) over every pixel whose flux fraction f and noise
\* are finite (layers with at least one such pixel).
C15_NoiseSumsEveryFinitePixel ==
    (specfiles # <<>> /\ ~all_scales_one /\ ex_call.noise) =>
        \A i \in 1..Len(specfiles) : \A l \in Layers :
            LET ids == specfiles[i].srcids
            IN  (ValidIds(ids) /\ FinitePixels(ids, l) # {}) =>
                    specfiles[i].fluxerror[l] = OptimalNoise(ids, l, FinitePixels(ids, l))

\* the finite pixels whose noise is not zero
NonZeroNoisePixels(ids, l) == {p \in FinitePixels(ids, l) : ~IsZero(ex_noise[l][p])}

\* C15 (amended): in deblended mode with a noise cube, the noise of a layer is
\* 1/sqrt(sum f^2/noise^2) over the pixels whose flux fraction f and noise
\* are finite and whose noise is not zero (layers with at least one such
\* pixel and a positive sum).
C15_NoiseSumsFiniteNonZeroNoisePixels ==
    (specfiles # <<>> /\ ~all_scales_one /\ ex_call.noise) =>
        \A i \in 1..Len(specfiles) : \A l \in Layers :
            LET ids == specfiles[i].srcids
                S == NonZeroNoisePixels(ids, l)
            IN  (ValidIds(ids) /\ S # {} /\ \E p \in S : ~IsZero(FluxFraction(ids, l)[p])) =>
                    specfiles[i].fluxerror[l] = OptimalNoise(ids, l, S)

\* C15 witness: a deblended spectrum of two sources whose noise, finite and
\* not zero, was summed in a layer with a zero-noise pixel under the object.
C15_Witness ==
    /\ specfiles # <<>>
    /\ ~all_scales_one
    /\ ex_call.noise
    /\ \E i \in 1..Len(specfiles) : \E l \in Layers :
          LET ids == specfiles[i].srcids
          IN  /\ ValidIds(ids)
              /\ Len(ids) = 2
              /\ ids[1] # ids[2]
              /\ NonZeroNoisePixels(ids, l) # {}
              /\ \E p \in FinitePixels(ids, l) :
                    IsZero(ex_noise[l][p]) /\ ~IsZero(FluxFraction(ids, l)[p])
              /\ IsFinite(specfiles[i].fluxerror[l])
              /\ ~IsZero(specfiles[i].fluxerror[l])

\* the layers named by model_layers
SubsetLayers == {model_layers.list[i] : i \in 1..Len(model_layers.list)}

\* slice l of the model cube and column l of the weight matrix are all zero
LayerLeftZero(l) ==
    /\ model_cube_out[l] = ZeroImage
    /\ \A s \in Sources : layer_scales[s][l] = Zero

\* C16: when gen_fullmodel is given model_layers and returns, for every
\* parameter type the layers outside the subset are all zero in the model
\* cube and the weight matrix, and the layers of the subset have been
\* processed.
C16_UnlistedLayersZeroForEveryParamtype ==
    (pc = "returned" /\ model_layers.given) =>
        /\ \A l \in Layers \ SubsetLayers : LayerLeftZero(l)
        /\ DoneSet = SubsetLayers

\* the static aperture image: 1 where a source template is not zero, else 0,
\* a function of the source parameters alone
StaticApertureImage ==
    [p \in Pixels |-> IF \A s \in Sources : sourceparam[s][p] = Zero THEN Zero ELSE One]

\* C17: with paramtype 'aperture' gen_fullmodel never aborts and never runs a
\* layer iteration; once the arrays are built every weight is exactly 1 and
\* every slice of the model cube is the one static aperture image, whatever
\* the data cube, the noise cube, the PSF parameters and the solver are.
C17_ApertureModeSkipsTheSolve ==
    paramtype = "aperture" =>
        /\ pc \in {"start", "finished", "returned"}
        /\ done_layers = <<>>
        /\ pc # "start" =>
              /\ EveryWeightIsOne
              /\ \A l \in Layers : model_cube_out[l] = StaticApertureImage

\* C17 witness: an 'aperture' run returned on a data cube with a layer of NaN
\* only, a noise cube and a solver name that no branch knows.
C17_Witness ==
    /\ paramtype = "aperture"
    /\ pc = "returned"
    /\ optimize_method = "bogus"
    /\ noisecube.given
    /\ \E l \in Layers : \A p \in Pixels : IsNaN(datacube[l][p])
    /\ EveryWeightIsOne
    /\ \A l \in Layers : model_cube_out[l] = StaticApertureImage

\* C18: an iteration of the layer loop changes at most the column and the
\* slice of its own layer, and once the arrays are allocated no other step of
\* the run or of the extraction changes the weight matrix or the model cube:
\* what a completed layer wrote stays as it is.
C18_LayerWritesOnlyItsOwnColumn ==
    [][/\ AtLayer =>
             \A l \in Layers \ {layerlist[lidx]} :
                /\ model_cube_out'[l] = model_cube_out[l]
                /\ \A s \in Sources : layer_scales'[s][l] = layer_scales[s][l]
       /\ (pc # "start" /\ ~AtLayer) => UNCHANGED <<layer_scales, model_cube_out>>]_vars

\* C18 witness: two layers were completed one after the other, each with a
\* non-zero scale, and the column of the first is still what was solved for it.
C18_Witness ==
    /\ Len(done_layers) >= 2
    /\ done_layers[1] # done_layers[2]
    /\ \E s \in Sources : ~IsZero(layer_scales[s][done_layers[1]])
    /\ \E s \in Sources : ~IsZero(layer_scales[s][done_layers[2]])
    /\ Columns(layer_scales, done_layers[1]) # Columns(layer_scales, done_layers[2])

\* the scales of layer l as the solver named by optimize_method gives them
\* from layer l of the cubes and the source templates alone
LayerSolution(l) ==
    CASE optimize_method = "matrix" -> scalesMTX(l)
      [] optimize_method = "nnls" -> scalesNNLS(l)
      [] OTHER -> scalesLSQ(l)

\* the model image that goes with LayerSolution(l)
LayerModel(l) ==
    IF ~analytic_conv /\ optimize_method = "lstsq"
    THEN [p \in Pixels |-> Mul(Atrans(l)[Nsource - 1][p], LayerSolution(l)[0])]
    ELSE IF ~analytic_conv /\ optimize_method = "nnls" /\ Nsource > 1
    THEN scaled_sourceparam(LayerSolution(l))
    ELSE scaled_model(LayerSolution(l))

UnmaskedPixels(l) ==
    {p \in Pixels : IsFinite(datacube[l][p]) /\ IsFinite(noise_of(l)[p])}

\* the normal equations of layer l over its unmasked pixels only
UnmaskedATA(l) ==
    [i \in Sources |-> [j \in Sources |->
        SumOver([p \in Pixels |->
                    Div(Mul(img_model(i)[p], img_model(j)[p]),
                        Mul(noise_of(l)[p], noise_of(l)[p]))], UnmaskedPixels(l))]]
UnmaskedATd(l) ==
    [i \in Sources |->
        SumOver([p \in Pixels |->
                    Div(Mul(img_model(i)[p], datacube[l][p]),
                        Mul(noise_of(l)[p], noise_of(l)[p]))], UnmaskedPixels(l))]

\* the least-squares solution over the unmasked pixels, where it is unique
UnmaskedSolution(l) == Cramer(UnmaskedATA(l), UnmaskedATd(l))

\* C20: for each of the three solvers, the scales of a completed layer with
\* masked pixels are the least-squares solution over its unmasked pixels (where
\* that solution is unique, finite and, for 'nnls', non-negative), so that
\* the values at the masked pixels play no part in them.
C20_MaskedPixelsDoNotContribute ==
    (SolverCall /\ ex_pc = "idle") =>
        \A l \in DoneSet :
            (/\ UnmaskedPixels(l) # Pixels
             /\ \A p \in UnmaskedPixels(l) : ~IsZero(noise_of(l)[p])
             /\ AllFinite2(UnmaskedATA(l))
             /\ ~IsZero(Det(UnmaskedATA(l)))
             /\ \A s \in Sources : ~Less(UnmaskedSolution(l)[s], Zero))
                => Columns(layer_scales, l) = UnmaskedSolution(l)

\* the two templates are unit profiles that share no pixel
NonOverlappingUnitTemplates ==
    /\ Nsource = 2
    /\ \A p \in Pixels : IsZero(sourceparam[0][p]) \/ IsZero(sourceparam[1][p])
    /\ \A s \in Sources : SumOver(sourceparam[s], Pixels) = One

\* layer l of the data is f1 * t1 + f2 * t2 and its noise is finite and not zero
BuiltFrom(l, f1, f2) ==
    /\ \A p \in Pixels :
          datacube[l][p] = Add(Mul(Z(f1), sourceparam[0][p]), Mul(Z(f2), sourceparam[1][p]))
    /\ \A p \in Pixels : IsFinite(noise_of(l)[p]) /\ ~IsZero(noise_of(l)[p])

SumOfScaledTemplates(l) ==
    [p \in Pixels |->
        SumOver([s \in Sources |-> Mul(layer_scales[s][l], img_model(s)[p])], Sources)]

\* C22: for every solver and for both template modes, with one or several
\* sources, the model slice of a solved layer is the sum over the sources of
\* the solved scale times the unit-scale PSF-convolved template of the source,
\* before any noise weighting.
C22_ModelSliceIsSumOfScaledTemplates ==
    (SolverCall /\ ex_pc = "idle") =>
        \A l \in DoneSet : model_cube_out[l] = SumOfScaledTemplates(l)


\* the data and the templates of layer l as a solve with unit weights sees
\* them: the pixels with a non-finite value are masked (read as 0 by the dot
\* products) or, for the solvers that take no mask, filled with 0
UnitWeightData(l) ==
    [p \in Pixels |-> IF IsFinite(datacube[l][p]) THEN datacube[l][p] ELSE Zero]
UnitWeightTemplate(l, s) ==
    [p \in Pixels |->
        IF ~IsFinite(datacube[l][p]) /\ optimize_method = "matrix" THEN Zero
        ELSE img_model(s)[p]]
UnitWeightATA(l) ==
    [i \in Sources |-> [j \in Sources |->
        Dot(UnitWeightTemplate(l, i), UnitWeightTemplate(l, j))]]
UnitWeightATd(l) ==
    [i \in Sources |-> Dot(UnitWeightTemplate(l, i), UnitWeightData(l))]

\* the scales the solver named by optimize_method returns for the unweighted
\* system of layer l
UnitWeightSolution(l) ==
    LET M == UnitWeightATA(l)
        b == UnitWeightATd(l)
        x == Cramer(M, b)
    IN  CASE optimize_method = "matrix" ->
                IF IsZero(Det(M)) THEN ZeroScales ELSE x
          [] optimize_method = "lstsq" ->
                IF ~IsZero(Det(M)) THEN x
                ELSE IF IsZero(Trace2(M)) THEN ZeroScales
                ELSE [s \in Sources |-> Div(b[s], Trace2(M))]
          [] OTHER ->
                IF Nsource = 1 THEN OneActive(M, b, 0)
                ELSE IF IsZero(Det(M))
                     THEN IF Less(b[0], b[1]) THEN OneActive(M, b, 1)
                          ELSE OneActive(M, b, 0)
                ELSE IF ~Less(x[0], Zero) /\ ~Less(x[1], Zero) THEN x
                ELSE IF Less(Gain(M, b, 0), Gain(M, b, 1)) THEN OneActive(M, b, 1)
                ELSE OneActive(M, b, 0)

\* the noise cube is absent or a cube of ones
UnitNoise ==
    noisecube.given =>
        /\ noisecube.nl = NLayers
        /\ noisecube.npix = NPix
        /\ \A l \in Layers : \A p \in Pixels : noisecube.img[l][p] = One

\* C23: without a noise cube every solver solves each layer with unit weights:
\* the scales are those of the unweighted system, the same a noise cube of all
\* ones gives.
C23_NoNoiseCubeMeansUnitWeights ==
    (SolverCall /\ ex_pc = "idle" /\ UnitNoise) =>
        \A l \in DoneSet : Columns(layer_scales, l) = UnitWeightSolution(l)

\* C23 witness: a run without a noise cube returned non-zero scales for two
\* sources from data that is not uniform.
C23_Witness ==
    /\ pc = "returned"
    /\ SolverCall
    /\ ~noisecube.given
    /\ Nsource = 2
    /\ \E l \in DoneSet :
          /\ datacube[l][1] # datacube[l][NPix]
          /\ IsFinite(datacube[l][1]) /\ IsFinite(datacube[l][NPix])
          /\ ~IsZero(layer_scales[0][l])
          /\ ~IsZero(layer_scales[1][l])
          /\ Columns(layer_scales, l) = UnitWeightSolution(l)


\* the source id lists of the spectra written so far, in the order written
WrittenIds == [i \in 1..Len(specfiles) |-> specfiles[i].srcids]

\* C24: called without a source association dictionary, extract_spectra builds
\* the identity association: one object per row of the weight matrix, object i
\* holding source i alone, extracted in increasing order.
C24_DefaultAssociationIsIdentity ==
    (ex_call.entry = "extract_spectra" /\ ~ex_call.given) =>
        /\ Len(ex_call.dict) = Nsource
        /\ \A i \in 1..Nsource : ex_call.dict[i] = <<i - 1>>
        /\ \A i \in 1..Len(specfiles) : WrittenIds[i] = <<i - 1>>
        /\ ex_pc = "returned" => Len(specfiles) = Nsource

\* C24 witness: an extraction without a dictionary returned one spectrum for
\* each of two sources.
C24_Witness ==
    /\ ex_call.entry = "extract_spectra"
    /\ ~ex_call.given
    /\ ex_pc = "returned"
    /\ Nsource = 2
    /\ WrittenIds = << <<0>>, <<1>> >>


\* a call that asks for one combined scale and is otherwise well formed
CombinedScaleCall ==
    /\ paramtype \in {"gauss", "modelimg"}
    /\ psfparamtype = "gauss"
    /\ ~fit_source_scales
    /\ optimize_method = "matrix"
    /\ ShapesAgree
    /\ \A l \in Layers : \A p \in Pixels : IsFinite(datacube[l][p])

\* C25: with fit_source_scales = False one combined scale is fitted per layer:
\* the run completes for every layer of the layer list and every source's
\* entry of the weight matrix is that layer's single scale.
C25_CombinedScaleRunCompletes ==
    CombinedScaleCall =>
        /\ pc # "aborted"
        /\ pc = "returned" =>
              /\ DoneSet = {layerlist[i] : i \in 1..Len(layerlist)}
              /\ \A l \in DoneSet : \A s \in Sources :
                    layer_scales[s][l] = layer_scales[0][l]


\* the layers the call asks for
RequestedLayers == {layerlist[i] : i \in 1..Len(layerlist)}

\* C26: the cube is saved only once every layer of the layer list has been
\* processed: a run that aborted in some layer has saved nothing, and a run
\* that returned (and so whatever it saved) holds every requested layer.
C26_SavedOnlyAfterEveryLayer ==
    /\ pc = "aborted" => saved = <<>>
    /\ saved # <<>> => pc = "returned"
    /\ (pc = "returned" /\ paramtype \in {"gauss", "modelimg"}) =>
          /\ done_layers = layerlist
          /\ saved # <<>> =>
                /\ saved[1].scales = layer_scales
                /\ saved[1].cube = model_cube_out

\* C26 witness: a run over at least two layers returned and saved its arrays.
C26_Witness ==
    /\ pc = "returned"
    /\ SolverCall
    /\ saved # <<>>
    /\ Len(layerlist) >= 2
    /\ done_layers = layerlist
    /\ \E s \in Sources : ~IsZero(saved[1].scales[s][layerlist[Len(layerlist)]])

\* C26 witness of the abort: a run aborted after its first layer was done and
\* nothing was saved.
C26_AbortWitness ==
    /\ pc = "aborted"
    /\ save_modelcube
    /\ Len(done_layers) >= 1
    /\ saved = <<>>


\* C27: whatever optimize_method is chosen, 'curvefit' included, the optimizer
\* of a layer is handed the noise layer as per-pixel weight: the layer is never
\* solved as if the noise were ones when a noise cube was provided.
C27_EveryOptimizerWeightsByNoise ==
    (/\ AtLayer
     /\ paramtype \in {"gauss", "modelimg"}
     /\ psfparamtype = "gauss"
     /\ fit_source_scales
     /\ optimize_method \in Solvers \cup {"curvefit"}
     /\ ShapesAgree
     /\ noisecube.given
     /\ ~has_nonfinite(layerlist[lidx])) =>
        \A m \in optimize_method_list :
            img_std(m, layerlist[lidx]) = noisecube.img[layerlist[lidx]]


\* the sum over the sources of the source model cube at layer l
SourceCubeSum(l) ==
    [p \in Pixels |->
        SumOver([s \in Sources |-> gen_source_model_cube[s][l][p]], Sources)]

\* C28: the source model cube is consistent with the model cube: for every
\* solved layer, layers with non-finite pixels included, the sum over the
\* sources of gen_source_model_cube equals gen_fullmodel's model slice, each
\* entry being the unit-scale template times the source's weight.
C28_SourceCubeSumsToModelCube ==
    (pc = "returned" /\ SolverCall /\ ex_pc = "idle") =>
        \A l \in DoneSet :
            /\ SourceCubeSum(l) = model_cube_out[l]
            /\ \A s \in Sources : \A p \in Pixels :
                  gen_source_model_cube[s][l][p] = Mul(img_model(s)[p], layer_scales[s][l])

\* the same for the Gaussian templates alone
SourceCubeSumsToModelCubeGauss == paramtype = "gauss" => C28_SourceCubeSumsToModelCube


\* the models remove_object is asked to subtract and those it is asked to
\* leave in the cube
RemovedModels ==
    IF rm_call.remove THEN SeqRange(rm_call.objects)
    ELSE Sources \ SeqRange(rm_call.objects)
KeptModels == Sources \ RemovedModels

\* the data cube minus each model of the set S, once
DataMinus(S) ==
    [l \in Layers |-> [p \in Pixels |->
        Sub(datacube[l][p],
            SumOver([s \in Sources |-> gen_source_model_cube[s][l][p]], S))]]

\* C29: remove_object splits the models 0..Nmodels-1 into a removed and a kept
\* set, disjoint and covering, and returns the data cube minus the sum of the
\* removed models, each subtracted once even when it is listed more than
\* once; with remove = False the listed objects are the kept ones.
C29_EachRemovedModelSubtractedOnce ==
    (rm_pc = "returned" /\ SeqRange(rm_call.objects) \subseteq Sources) =>
        /\ SeqRange(obj_remove(rm_call.objects, rm_call.remove)) = RemovedModels
        /\ SeqRange(obj_keep(rm_call.objects, rm_call.remove)) = KeptModels
        /\ modified_cube = DataMinus(RemovedModels)

\* the same for the lists that name no object twice
EachListedOnce ==
    Cardinality(SeqRange(rm_call.objects)) = Len(rm_call.objects)
RemovedOnceWhenListedOnce == EachListedOnce => C29_EachRemovedModelSubtractedOnce


\* C30: every source id extract_spectrum uses lies in 0..Nsources-1: a list
\* holding an id outside that range, too large or negative, aborts the call
\* before the flux is assembled, so no spectrum is written for it.
C30_EverySourceIdInRange ==
    /\ \A i \in 1..Len(specfiles) : SeqRange(specfiles[i].srcids) \subseteq Sources
    /\ (ex_pc = "objects" /\ oo <= Len(ex_call.dict)
        /\ ex_call.nwave = NLayers
        /\ ~(SeqRange(ex_call.dict[oo]) \subseteq Sources)) =>
            validation_error(ex_call.dict[oo]) # ""

\* the same for the ids that are too large only
NoNegativeId == \A i \in 1..Len(ex_call.dict) : \A j \in 1..Len(ex_call.dict[i]) :
                    ex_call.dict[i][j] >= 0
TooLargeIdAborts == NoNegativeId => C30_EverySourceIdInRange


\* no spectrum has been written for a list with a negative id
NoSpectrumOfNegativeId ==
    \A i \in 1..Len(specfiles) : SeqRange(specfiles[i].srcids) \subseteq Sources

====
